---- MODULE Spec2Model ----
(***************************************************************************)
(* Closed-loop microreactor power control: the two controllers of          *)
(* controller.py (STCController, PIDController), the drum table and the    *)
(* reactivity formula of reactor.py, and the Euler loop of run.py.         *)
(*                                                                         *)
(* Numbers.  The program computes in IEEE doubles.  Here a real quantity q *)
(* is the integer q*Scale (three decimals): seconds, degrees, relative     *)
(* power, kelvin and every controller gain.  A product or quotient is      *)
(* rounded toward zero to that grid where the program rounds to the        *)
(* nearest double.  Reactivities (Rho_d0, Reactivity_per_degree, rho) are  *)
(* integers in units of 1e-9 (Reactivity_per_degree: 1e-7 per degree),     *)
(* xenon and iodine concentrations in units of 1e13, the fission rate Pi   *)
(* in units of 1e10.                                                       *)
(***************************************************************************)
EXTENDS Integers, Sequences, FiniteSets, TLC

Scale == 10 ^ 3

Abs(a) == IF a < 0 THEN -a ELSE a

\* np.sign
sign(a) == IF a > 0 THEN 1 ELSE IF a < 0 THEN -1 ELSE 0

\* integer quotient rounded toward zero (b # 0)
Quot(a, b) == sign(a) * sign(b) * (Abs(a) \div Abs(b))

\* a * b of two Scale-d quantities
Mul(a, b) == Quot(a * b, Scale)

\* a / b of two Scale-d quantities (b # 0)
Div(a, b) == Quot(a * Scale, b)

RECURSIVE ISqrt(_, _, _)
\* the largest r in lo..hi with r*r <= n (bisection; lo*lo <= n < (hi+1)^2)
ISqrt(n, lo, hi) ==
    IF lo >= hi THEN lo
    ELSE LET mid == (lo + hi + 1) \div 2
         IN  IF mid * mid <= n THEN ISqrt(n, mid, hi) ELSE ISqrt(n, lo, mid - 1)

\* np.sqrt of a Scale-d quantity a >= 0, as a Scale-d quantity
sqrt(a) == ISqrt(a * Scale, 0, 46340)

(***************************************************************************)
(* controller.py                                                           *)
(***************************************************************************)

\* STCController.__init__
STCController(lambda_, W, T_C, max_val, min_val, max_rate, u0) ==
    [ kind |-> "STC", lambda_ |-> lambda_, W |-> W, T_C |-> T_C,
      max_val |-> max_val, min_val |-> min_val, max_rate |-> max_rate,
      u |-> u0, err_prev |-> 0, t_prev |-> 0, deriv_prev |-> 0,
      command_sat_prev |-> u0, command_prev |-> u0 ]

\* PIDController.__init__ with command_prev started at 0, like err_prev, not at u0
PIDController_ZeroCommandPrev(Kp, Ki, Kd, Kaw, T_C, max_val, min_val, max_rate, u0) ==
    [ kind |-> "PID", Kp |-> Kp, Ki |-> Ki, Kd |-> Kd, Kaw |-> Kaw, T_C |-> T_C,
      max_val |-> max_val, min_val |-> min_val, max_rate |-> max_rate,
      integral |-> u0, err_prev |-> 0, t_prev |-> 0, deriv_prev |-> 0,
      command_prev |-> 0, command_sat_prev |-> u0 ]

\* PIDController.__init__
PIDController(Kp, Ki, Kd, Kaw, T_C, max_val, min_val, max_rate, u0) ==
    [ kind |-> "PID", Kp |-> Kp, Ki |-> Ki, Kd |-> Kd, Kaw |-> Kaw, T_C |-> T_C,
      max_val |-> max_val, min_val |-> min_val, max_rate |-> max_rate,
      integral |-> u0, err_prev |-> 0, t_prev |-> 0, deriv_prev |-> 0,
      command_prev |-> u0, command_sat_prev |-> u0 ]

\* denom = T + self.T_C if (T + self.T_C) != 0 else self.T_C
Denom(T, T_C) == IF T + T_C # 0 THEN T + T_C ELSE T_C

\* "Saturation limits": the if / elif / else on max_val, min_val
Saturate(command, max_val, min_val) ==
    IF command > max_val THEN max_val
    ELSE IF command < min_val THEN min_val
    ELSE command

\* RateLimit without its elif branch: a falling command is not held back
RateLimit_NoLowerBranch(command_sat, command_sat_prev, max_rate, T) ==
    IF command_sat > command_sat_prev + Mul(max_rate, T)
        THEN command_sat_prev + Mul(max_rate, T)
    ELSE command_sat

\* "Rate limiting": the if / elif on command_sat_prev +- max_rate * T
RateLimit(command_sat, command_sat_prev, max_rate, T) ==
    IF command_sat > command_sat_prev + Mul(max_rate, T)
        THEN command_sat_prev + Mul(max_rate, T)
    ELSE IF command_sat < command_sat_prev - Mul(max_rate, T)
        THEN command_sat_prev - Mul(max_rate, T)
    ELSE command_sat

\* the anti-windup summand of PIDController.update's integral
AntiWindup(Kaw, command_sat_prev, command_prev, T_period) ==
    Mul(Mul(Kaw, command_sat_prev - command_prev), T_period)

(***************************************************************************)
(* update returns [self, raised, ret, ...]: self is the instance after the *)
(* call; raised says that the division by denom was a division by zero     *)
(* (ZeroDivisionError on Python numbers: the call ends there, with the     *)
(* fields assigned before the division already changed); the other fields  *)
(* are the call's locals, kept for the properties.                         *)
(***************************************************************************)
STCController_update(self, t, measurement, setpoint) ==
    LET err   == setpoint - measurement
        T     == t - self.t_prev
        denom == Denom(T, self.T_C)
    IN  IF denom = 0
        THEN [ self |-> self, raised |-> TRUE, T |-> T, denom |-> denom, err |-> err,
               command |-> 0, clamped |-> 0, ret |-> 0, aw |-> 0 ]
        ELSE
        LET deriv_filt  == Div(err - self.err_prev + Mul(self.T_C, self.deriv_prev), denom)
            s           == err + deriv_filt
            u           == self.u + Mul(self.W * sign(s), T)
            command     == Mul(self.lambda_, sqrt(Abs(s))) * sign(s) + u
            clamped     == Saturate(command, self.max_val, self.min_val)
            command_sat == RateLimit(clamped, self.command_sat_prev, self.max_rate, T)
        IN  [ self |-> [self EXCEPT !.err_prev = err, !.deriv_prev = deriv_filt,
                                    !.u = u, !.command_sat_prev = command_sat,
                                    !.t_prev = t],
              raised |-> FALSE, T |-> T, denom |-> denom, err |-> err,
              command |-> command, clamped |-> clamped, ret |-> command_sat, aw |-> 0 ]

PIDController_update(self, t, measurement, setpoint) ==
    LET err      == setpoint - measurement
        T_period == t - self.t_prev
        aw       == AntiWindup(self.Kaw, self.command_sat_prev, self.command_prev, T_period)
        integral == self.integral + Mul(Mul(self.Ki, err), T_period) + aw
        denom    == Denom(T_period, self.T_C)
    IN  IF denom = 0
        THEN [ self |-> [self EXCEPT !.t_prev = t, !.integral = integral],
               raised |-> TRUE, T |-> T_period, denom |-> denom, err |-> err,
               command |-> 0, clamped |-> 0, ret |-> 0, aw |-> aw ]
        ELSE
        LET deriv_filt  == Div(err - self.err_prev + Mul(self.T_C, self.deriv_prev), denom)
            command     == Mul(self.Kp, err) + integral + Mul(self.Kd, deriv_filt)
            clamped     == Saturate(command, self.max_val, self.min_val)
            command_sat == RateLimit(clamped, self.command_sat_prev, self.max_rate, T_period)
        IN  [ self |-> [self EXCEPT !.t_prev = t, !.integral = integral,
                                    !.err_prev = err, !.deriv_prev = deriv_filt,
                                    !.command_prev = command,
                                    !.command_sat_prev = command_sat],
              raised |-> FALSE, T |-> T_period, denom |-> denom, err |-> err,
              command |-> command, clamped |-> clamped, ret |-> command_sat, aw |-> aw ]

\* controller.update(...): the method of the instance's class
update(self, t, measurement, setpoint) ==
    IF self.kind = "STC" THEN STCController_update(self, t, measurement, setpoint)
    ELSE PIDController_update(self, t, measurement, setpoint)

(***************************************************************************)
(* reactor.py                                                              *)
(***************************************************************************)

\* get_drum_params whose else branch repeats the 8-drum W
get_drum_params_SameW(num_drums) ==
    IF num_drums = 8 THEN << -33085599, 2611, 77560, 60 >>
    ELSE IF num_drums = 4 THEN << -33085599 + 13980296, 1611, 108500, 100 >>
    ELSE IF num_drums = 2 THEN << -33085599 + 7400000, 733, 165500, 200 >>
    ELSE IF num_drums = 1 THEN << -33085599 + 7100000 + 8200000, 277, 170000, 490 >>
    ELSE << -33085599, 2611, 77560, 60 >>

\* get_drum_params: <<Rho_d0, Reactivity_per_degree, u0, W>>, with Rho_d0 in
\* units of 1e-9, Reactivity_per_degree in units of 1e-7, u0 and W Scale-d
get_drum_params(num_drums) ==
    IF num_drums = 8 THEN << -33085599, 2611, 77560, 60 >>
    ELSE IF num_drums = 4 THEN << -33085599 + 13980296, 1611, 108500, 100 >>
    ELSE IF num_drums = 2 THEN << -33085599 + 7400000, 733, 165500, 200 >>
    ELSE IF num_drums = 1 THEN << -33085599 + 7100000 + 8200000, 277, 170000, 490 >>
    ELSE << -33085599, 2611, 77560, 40 >>

\* Reactor.__init__
Reactor(num_drums, initial_state, parameters) ==
    [ num_drums |-> num_drums, params |-> parameters, x |-> initial_state ]

\* "Unpack state vector x": Python's x[0] .. x[11] are x[1] .. x[12] here
Unpack(x) ==
    [ n_r |-> x[1], Cr1 |-> x[2], Cr2 |-> x[3], Cr3 |-> x[4], Cr4 |-> x[5],
      Cr5 |-> x[6], Cr6 |-> x[7], X |-> x[8], I |-> x[9],
      Tf |-> x[10], Tm |-> x[11], Tc |-> x[12] ]

\* the feedback sum of rho in units of 1e-9, around the anchor temperatures
\* (Scale-d kelvin): alpha_f = -2.875e-5, alpha_m = -3.696e-5, alpha_c = 0.0,
\* Sig_x = 2.65e-22 (2.65e-9 per 1e13), Sum_f = 0.3358
Feedback(Rho_d1, s, Xe0_, Tf_a, Tc_a, Tm_a) ==
    Rho_d1 + Quot(-2875 * (s.Tf - Tf_a), 100) + 0 * (s.Tc - Tc_a)
           + Quot(-3696 * (s.Tm - Tm_a), 100)
           - Quot(26500 * (s.X - Xe0_), 3358)

\* reactor_dae whose else branch computes rho as for 8 drums instead of raising
reactor_dae_NoRaise(self, t, x, u, phys) ==
    LET Tc0    == (864 * Scale + 1106 * Scale) \div 2
        Rho_d1 == self.params.Rho_d0 + Quot(u * self.params.Reactivity_per_degree, 10)
    IN  IF self.num_drums = 4
        THEN [ raised |-> FALSE, dx |-> [k \in 1..12 |-> phys[k]],
               rho |-> Feedback(Rho_d1, Unpack(x), self.params.Xe0, 900420, 888261, 898261) ]
        ELSE [ raised |-> FALSE, dx |-> [k \in 1..12 |-> phys[k]],
               rho |-> Feedback(Rho_d1, Unpack(x), self.params.Xe0, self.params.Tf0, Tc0,
                                self.params.Tm0) ]

(***************************************************************************)
(* Reactor.reactor_dae: [raised, dx, rho].  rho is computed as the code    *)
(* computes it.  The twelve derivatives depend on physical constants whose *)
(* products lie far outside the integers available here; their values are  *)
(* the argument phys (a vector of twelve Scale-d rates), which the caller  *)
(* draws from a set, and dx is built from it only after the drum-count     *)
(* branch, as in the code.                                                 *)
(***************************************************************************)
reactor_dae(self, t, x, u, phys) ==
    LET Rho_d0 == self.params.Rho_d0
        Reactivity_per_degree == self.params.Reactivity_per_degree
        Xe0_   == self.params.Xe0
        Tf0    == self.params.Tf0
        Tm0    == self.params.Tm0
        Tc0    == (864 * Scale + 1106 * Scale) \div 2
        s      == Unpack(x)
        Rho_d1 == Rho_d0 + Quot(u * Reactivity_per_degree, 10)
    IN  IF self.num_drums \in {8, 2, 1}
        THEN [ raised |-> FALSE, dx |-> [k \in 1..12 |-> phys[k]],
               rho |-> Feedback(Rho_d1, s, Xe0_, Tf0, Tc0, Tm0) ]
        ELSE IF self.num_drums = 4
        THEN [ raised |-> FALSE, dx |-> [k \in 1..12 |-> phys[k]],
               rho |-> Feedback(Rho_d1, s, Xe0_, 900420, 888261, 898261) ]
        ELSE [ raised |-> TRUE, dx |-> << >>, rho |-> 0 ]

(***************************************************************************)
(* run.py                                                                  *)
(***************************************************************************)

\* bounds of the model
MaxCalls == 3
MaxSteps == 3
MaxDrums == 9

\* dt = 0.1
dt == 100
\* Pi = P_0 / (G * Sum_f * V), in units of 1e10
Pi == 25592
\* Xe0 = (yi + yx) * Sum_f * Pi / (lamda_x + Sig_x * Pi), in units of 1e13
Xe0 == 2590
\* I0 = yi * Sum_f * Pi / lamda_I, in units of 1e13
I0 == 1827

Supported == {8, 4, 2, 1}

\* time_points = np.array([0, 20, 30, 50, 60, 80, 90, 110, 130, 200]) * 30, Scale-d
time_points ==
    [k \in 1..10 |-> << 0, 20, 30, 50, 60, 80, 90, 110, 130, 200 >>[k] * 30 * Scale]

\* pow_arr of a supported drum count, Scale-d
pow_arr(num) ==
    IF num = 8 THEN << 1000, 1000, 500, 500, 1000, 1000, 500, 500, 1000, 1000 >>
    ELSE IF num = 4 THEN << 300, 300, 1000, 1000, 600, 600, 800, 800, 1000, 1000 >>
    ELSE IF num = 2 THEN << 700, 700, 400, 400, 400, 800, 800, 800, 1000, 1000 >>
    ELSE << 900, 900, 700, 700, 500, 500, 700, 700, 1000, 1000 >>

\* np.interp(t, xp, fp): flat outside xp, linear between two breakpoints
interp(t, xp, fp) ==
    IF t <= xp[1] THEN fp[1]
    ELSE IF t >= xp[Len(xp)] THEN fp[Len(fp)]
    ELSE LET k == CHOOSE j \in 1..(Len(xp) - 1) : xp[j] <= t /\ t < xp[j + 1]
         IN  fp[k] + Quot((fp[k + 1] - fp[k]) * (t - xp[k]), xp[k + 1] - xp[k])

\* generate_reference over the grid time[i] = i * dt, i = 0 .. n - 1
generate_reference(n, xp, fp) == [k \in 1..n |-> interp((k - 1) * dt, xp, fp)]

\* x0 = np.array([pow_arr[0]] * 7 + [I0, Xe0, Tf, Tm, Tc]) of a supported drum count
x0_of(num, pow0) ==
    LET seven == << pow0, pow0, pow0, pow0, pow0, pow0, pow0 >>
    IN  IF num = 8 THEN seven \o << I0, Xe0, 900 * Scale, 898 * Scale, 883 * Scale >>
        ELSE IF num = 4 THEN seven \o << I0, Xe0, 875 * Scale, 873500, 870 * Scale >>
        ELSE IF num = 2 THEN seven \o << I0, Xe0, 890 * Scale, 888 * Scale, 877 * Scale >>
        ELSE seven \o << I0, Xe0, 897 * Scale, 895 * Scale, 881 * Scale >>

\* reactor_params
reactor_params_of(p) ==
    [ Rho_d0 |-> p[1], Reactivity_per_degree |-> p[2], Xe0 |-> Xe0, I0 |-> I0,
      Pi |-> Pi, Tf0 |-> 1105 * Scale, Tm0 |-> 1087 * Scale ]

\* the controller main builds: k * 26.11e-5 / Reactivity_per_degree for the PID
GainOf(k, Reactivity_per_degree) == Quot(k * 2611, Reactivity_per_degree)

make_controller(controller_type, p) ==
    IF controller_type = "STC"
    THEN STCController(1, p[4], 500, 180 * Scale, 0, 500, p[3])
    ELSE PIDController(GainOf(2 * Scale, p[2]), GainOf(5 * Scale, p[2]),
                       GainOf(1, p[2]), GainOf(300, p[2]), 200,
                       180 * Scale, 0, GainOf(500, p[2]), p[3])

zeros(n) == [k \in 1..n |-> 0]

VARIABLES
    controller,       \* the controller instance (its fields)
    call,             \* the last update call: arguments, locals, outcome, the instance
                      \* before it, the raw and returned command of the call before it
    ncalls,           \* update calls made on the instance
    zeroErr,          \* measurement = setpoint at every call so far
    noSat,            \* no call so far took a saturation branch
    forward,          \* no call so far had a negative elapsed time
    pc,               \* where main is
    num_drums, controller_type, nt,
    ref, reactor_sim,
    state_history, control_history, rho_history,
    i,                \* the loop index
    dx,               \* the loop's dx
    log,              \* the steps main made, in order: op, the Python indices of the
                      \* time (t), state (x), command (u) and reference (r) entries
                      \* read (-1: none) and of the entry written (w)
    plotted,          \* plot_results was called with the series
    probe             \* a direct call of get_drum_params or Reactor.reactor_dae

vars == << controller, call, ncalls, zeroErr, noSat, forward, pc, num_drums, controller_type,
           nt, ref, reactor_sim, state_history, control_history, rho_history, i, dx,
           log, plotted, probe >>

ctlVars == << controller, call, ncalls, zeroErr, noSat, forward >>
runVars == << pc, num_drums, controller_type, nt, ref, reactor_sim, state_history,
              control_history, rho_history, i, dx, log, plotted >>

NoCall == [ raised |-> FALSE, command |-> 0, ret |-> 0 ]
NoProbe == [ op |-> "none" ]
NoController == [ kind |-> "none" ]
NoReactor == [ num_drums |-> 0 ]

\* the arguments update is called with
Times == { -500, 0, 100, 200 }
Measurements == { 900, 990, 1000, 1100 }
Setpoints == { 1000 }

\* the instances update is called on: those main builds for 8 drums and 1 drum, and
\* the same with no filter (T_C = 0), with u0 at min_val or just under max_val, and
\* with W = lambda = 0
STCConfigs ==
    { STCController(lw[1], lw[2], tc, 180 * Scale, 0, 500, u0) :
        lw \in { << 1, 60 >>, << 0, 0 >> }, tc \in { 500, 0 }, u0 \in { 77560, 0 } }

PIDConfigs ==
    { PIDController(2000, 5000, 1, 300, tc, 180 * Scale, 0, 500, u0) :
        tc \in { 200, 0 }, u0 \in { 77560, 0 } }
    \cup { make_controller("PID", get_drum_params(1)),
           PIDController(2000, 5000, 1, 300, 200, 180 * Scale, 0, 500, 179900) }

CtlInit ==
    /\ call = NoCall
    /\ ncalls = 0
    /\ zeroErr = TRUE
    /\ noSat = TRUE
    /\ forward = TRUE

RunIdle ==
    /\ pc = "idle"
    /\ num_drums = 0 /\ controller_type = "" /\ nt = 0
    /\ ref = << >> /\ reactor_sim = NoReactor
    /\ state_history = << >> /\ control_history = << >> /\ rho_history = << >>
    /\ i = 0 /\ dx = << >> /\ log = << >> /\ plotted = FALSE
    /\ probe = NoProbe

\* a controller instance, constructed, used through update alone
Init ==
    /\ controller \in STCConfigs \cup PIDConfigs
    /\ CtlInit
    /\ RunIdle

\* the bookkeeping of one update call with result r
Called(r, t, measurement, setpoint) ==
    /\ controller' = r.self
    /\ call' = [ t |-> t, measurement |-> measurement, setpoint |-> setpoint,
                 T |-> r.T, denom |-> r.denom, err |-> r.err, raised |-> r.raised,
                 command |-> r.command, clamped |-> r.clamped, ret |-> r.ret,
                 aw |-> r.aw, before |-> controller,
                 prev_command |-> call.command, prev_ret |-> call.ret ]
    /\ ncalls' = ncalls + 1
    /\ zeroErr' = (zeroErr /\ measurement = setpoint)
    /\ noSat' = (noSat /\ (r.raised \/ r.clamped = r.command))
    /\ forward' = (forward /\ r.T >= 0)

\* controller.update(t, measurement, setpoint) on the instance; an instance whose
\* update has divided by zero is followed no further
Update(t, measurement, setpoint) ==
    /\ pc = "idle"
    /\ ncalls < MaxCalls
    /\ ~call.raised
    /\ Called(update(controller, t, measurement, setpoint), t, measurement, setpoint)
    /\ UNCHANGED << runVars, probe >>

Next ==
    \E t \in Times, measurement \in Measurements, setpoint \in Setpoints :
        Update(t, measurement, setpoint)

Spec == Init /\ [][Next]_vars

(***************************************************************************)
(* main().  Python's index k of time, ref and the three histories is index *)
(* k + 1 here; i is the Python loop index.  T_sim is the bounded horizon   *)
(* (nt - 1) * dt.                                                          *)
(***************************************************************************)

DrumCounts == -1 .. MaxDrums
ControllerTypes == { "STC", "PID", "LQR" }

\* the derivative values reactor_dae is given (see reactor_dae)
PhysRates == { [k \in 1..12 |-> d] : d \in { -1000, 0, 1000 } }

RunInit ==
    /\ controller = NoController
    /\ CtlInit
    /\ pc = "main"
    /\ num_drums \in DrumCounts
    /\ controller_type \in ControllerTypes
    /\ nt \in 2 .. (MaxSteps + 1)
    /\ ref = << >> /\ reactor_sim = NoReactor
    /\ state_history = << >> /\ control_history = << >> /\ rho_history = << >>
    /\ i = 0 /\ dx = << >> /\ log = << >> /\ plotted = FALSE
    /\ probe = NoProbe

\* lines 19-111: the reference, the parameters, x0, the reactor, the controller,
\* the preallocated histories and their first entries
main_setup ==
    /\ pc = "main"
    /\ UNCHANGED << call, ncalls, zeroErr, noSat, forward, num_drums, controller_type,
                    nt, i, dx, log, plotted, probe >>
    /\ IF num_drums \notin Supported
       THEN /\ pc' = "raised"
            /\ UNCHANGED << controller, ref, reactor_sim, state_history,
                            control_history, rho_history >>
       ELSE LET p  == get_drum_params(num_drums)
                x0 == x0_of(num_drums, pow_arr(num_drums)[1])
            IN  /\ ref' = generate_reference(nt, time_points, pow_arr(num_drums))
                /\ reactor_sim' = Reactor(num_drums, x0, reactor_params_of(p))
                /\ IF controller_type \notin { "STC", "PID" }
                   THEN /\ pc' = "raised"
                        /\ UNCHANGED << controller, state_history, control_history,
                                        rho_history >>
                   ELSE /\ controller' = make_controller(controller_type, p)
                        /\ state_history' = [k \in 1..nt |-> IF k = 1 THEN x0 ELSE zeros(12)]
                        /\ control_history' = [k \in 1..nt |-> IF k = 1 THEN p[3] ELSE 0]
                        /\ rho_history' = zeros(nt)
                        /\ pc' = IF 0 < nt - 1 THEN "loop_dae" ELSE "final"

\* lines 115-116: dx, rho_val = reactor_sim.reactor_dae(time[i], state_history[i, :],
\* control_history[i]); rho_history[i] = rho_val
loop_dae ==
    /\ pc = "loop_dae"
    /\ \E phys \in PhysRates :
         LET r == reactor_dae(reactor_sim, i * dt, state_history[i + 1],
                              control_history[i + 1], phys)
         IN  IF r.raised
             THEN /\ pc' = "raised"
                  /\ UNCHANGED << dx, rho_history, log >>
             ELSE /\ dx' = r.dx
                  /\ rho_history' = [rho_history EXCEPT ![i + 1] = r.rho]
                  /\ log' = Append(log, [op |-> "reactor_dae", t |-> i, x |-> i, u |-> i,
                                         r |-> -1, w |-> i])
                  /\ pc' = "loop_euler"
    /\ UNCHANGED << ctlVars, num_drums, controller_type, nt, ref, reactor_sim,
                    state_history, control_history, i, plotted, probe >>

\* line 117: state_history[i + 1, :] = state_history[i, :] + dx * dt
loop_euler ==
    /\ pc = "loop_euler"
    /\ state_history' = [state_history EXCEPT
                           ![i + 2] = [k \in 1..12 |-> state_history[i + 1][k] + Mul(dx[k], dt)]]
    /\ log' = Append(log, [op |-> "euler", t |-> -1, x |-> i, u |-> -1, r |-> -1,
                           w |-> i + 1])
    /\ pc' = "loop_update"
    /\ UNCHANGED << ctlVars, num_drums, controller_type, nt, ref, reactor_sim,
                    control_history, rho_history, i, dx, plotted, probe >>

\* line 119 fed state_history[i, 0]: the state the command being replaced acted on
loop_update_SameStep ==
    /\ pc = "loop_update"
    /\ LET r == update(controller, i * dt, state_history[i + 1][1], ref[i + 2])
       IN  /\ Called(r, i * dt, state_history[i + 1][1], ref[i + 2])
           /\ IF r.raised
              THEN /\ pc' = "raised"
                   /\ UNCHANGED << control_history, i, log >>
              ELSE /\ control_history' = [control_history EXCEPT ![i + 2] = r.ret]
                   /\ log' = Append(log, [op |-> "update", t |-> i, x |-> i, u |-> -1,
                                          r |-> i + 1, w |-> i + 1])
                   /\ i' = i + 1
                   /\ pc' = IF i + 1 < nt - 1 THEN "loop_dae" ELSE "final"
    /\ UNCHANGED << num_drums, controller_type, nt, ref, reactor_sim, state_history,
                    rho_history, dx, plotted, probe >>

\* line 119: control_history[i + 1] = controller.update(time[i],
\* state_history[i + 1, 0], ref[i + 1]), and the loop's next i
loop_update ==
    /\ pc = "loop_update"
    /\ LET r == update(controller, i * dt, state_history[i + 2][1], ref[i + 2])
       IN  /\ Called(r, i * dt, state_history[i + 2][1], ref[i + 2])
           /\ IF r.raised
              THEN /\ pc' = "raised"
                   /\ UNCHANGED << control_history, i, log >>
              ELSE /\ control_history' = [control_history EXCEPT ![i + 2] = r.ret]
                   /\ log' = Append(log, [op |-> "update", t |-> i, x |-> i + 1, u |-> -1,
                                          r |-> i + 1, w |-> i + 1])
                   /\ i' = i + 1
                   /\ pc' = IF i + 1 < nt - 1 THEN "loop_dae" ELSE "final"
    /\ UNCHANGED << num_drums, controller_type, nt, ref, reactor_sim, state_history,
                    rho_history, dx, plotted, probe >>

\* line 122: _, rho_history[-1] = reactor_sim.reactor_dae(time[-1],
\* state_history[-1, :], control_history[-1])
final_dae ==
    /\ pc = "final"
    /\ \E phys \in PhysRates :
         LET r == reactor_dae(reactor_sim, (nt - 1) * dt, state_history[nt],
                              control_history[nt], phys)
         IN  IF r.raised
             THEN /\ pc' = "raised"
                  /\ UNCHANGED << rho_history, log >>
             ELSE /\ rho_history' = [rho_history EXCEPT ![nt] = r.rho]
                  /\ log' = Append(log, [op |-> "reactor_dae", t |-> nt - 1, x |-> nt - 1,
                                         u |-> nt - 1, r |-> -1, w |-> nt - 1])
                  /\ pc' = "report"
    /\ UNCHANGED << ctlVars, num_drums, controller_type, nt, ref, reactor_sim,
                    state_history, control_history, i, dx, plotted, probe >>

\* lines 124-148: the error indices are printed and plot_results is given time,
\* state_history, control_history, rho_history and ref
report ==
    /\ pc = "report"
    /\ plotted' = TRUE
    /\ pc' = "done"
    /\ UNCHANGED << ctlVars, num_drums, controller_type, nt, ref, reactor_sim,
                    state_history, control_history, rho_history, i, dx, log, probe >>

\* a direct call get_drum_params(n), once main has ended
call_get_drum_params(n) ==
    /\ pc \in { "raised", "done" }
    /\ probe = NoProbe
    /\ probe' = [ op |-> "get_drum_params", num_drums |-> n, raised |-> FALSE,
                  result |-> get_drum_params(n) ]
    /\ UNCHANGED << ctlVars, runVars >>

\* a direct call Reactor(n, x, parameters).reactor_dae(t, x, u), once main has ended
call_reactor_dae(n, t, x, u, phys) ==
    /\ pc \in { "raised", "done" }
    /\ probe = NoProbe
    /\ LET r == reactor_dae(Reactor(n, x, reactor_params_of(get_drum_params(n))),
                            t, x, u, phys)
       IN  probe' = [ op |-> "reactor_dae", num_drums |-> n, raised |-> r.raised,
                      result |-> IF r.raised THEN << >> ELSE << r.dx, r.rho >> ]
    /\ UNCHANGED << ctlVars, runVars >>

\* the arguments of the direct reactor_dae calls
ProbeStates == { x0_of(1, 900), x0_of(4, 300) }
ProbeCommands == { 0, 170 * Scale }

RunNext ==
    \/ main_setup
    \/ loop_dae
    \/ loop_euler
    \/ loop_update
    \/ final_dae
    \/ report
    \/ \E n \in DrumCounts : call_get_drum_params(n)
    \/ \E n \in DrumCounts, x \in ProbeStates, u \in ProbeCommands, phys \in PhysRates :
           call_reactor_dae(n, 0, x, u, phys)

RunSpec == RunInit /\ [][RunNext]_vars

(***************************************************************************)
(* Properties of the controllers (specification Spec)                      *)
(***************************************************************************)

Returned == ncalls > 0 /\ ~call.raised

\* C1: every command update returns lies in [min_val, max_val], whatever the times,
\* measurements and setpoints of the calls so far.
C1_CommandInRange ==
    Returned => (controller.min_val <= call.ret /\ call.ret <= controller.max_val)

\* C2: a call with elapsed time T > 0 returns a command within max_rate*T of the
\* previously returned one; the raw command is saturated to [min_val, max_val]
\* first and the saturated value rate-limited second (the returned value is the
\* saturated one unless it lies outside the window, and then the window's edge on
\* that side); the returned value is the new command_sat_prev.
C2_RateLimited ==
    (Returned /\ call.T > 0) =>
        LET prev   == call.before.command_sat_prev
            window == Mul(controller.max_rate, call.T)
            sat    == IF call.command > controller.max_val THEN controller.max_val
                      ELSE IF call.command < controller.min_val THEN controller.min_val
                      ELSE call.command
        IN  /\ Abs(call.ret - prev) <= window
            /\ controller.command_sat_prev = call.ret
            /\ (Abs(sat - prev) <= window => call.ret = sat)
            /\ (sat > prev + window => call.ret = prev + window)
            /\ (sat < prev - window => call.ret = prev - window)

\* C2's case: a saturated raw command that the rate limit then holds back, T > 0
C2_Witness ==
    /\ Returned /\ call.T > 0
    /\ call.command > controller.max_val
    /\ call.ret < controller.max_val
    /\ call.ret = call.before.command_sat_prev + Mul(controller.max_rate, call.T)
    /\ forward

\* C3: a PIDController that has seen measurement = setpoint at every call, and never
\* took a saturation branch, still has the integral it had before the call and
\* returns the command it returned before.
C3_ZeroErrorHolds ==
    (controller.kind = "PID" /\ Returned /\ zeroErr /\ noSat) =>
        /\ controller.integral = call.before.integral
        /\ call.ret = call.before.command_sat_prev

\* C4: an STCController with W = 0 and lambda = 0 returns u0 from every update
\* (command_prev is u0: STCController.update never assigns it).
C4_StaysAtU0 ==
    (controller.kind = "STC" /\ controller.W = 0 /\ controller.lambda_ = 0 /\ ncalls > 0) =>
        (~call.raised /\ call.ret = controller.command_prev)

\* C8 as stated: the anti-windup summand is zero in every call whose previous raw
\* command was inside [min_val, max_val] (here for calls made in time order only, so
\* that a violation owes nothing to a rate limit turned around by a negative T).
C8_ZeroAfterUnsaturated ==
    (controller.kind = "PID" /\ ncalls >= 2 /\ forward
       /\ controller.min_val <= call.prev_command
       /\ call.prev_command <= controller.max_val) => call.aw = 0

\* C8 amended: the anti-windup summand is zero in the first call and in every call
\* whose previous call returned its raw command unchanged (neither saturated nor
\* rate-limited).
C8_ZeroAfterUnlimited ==
    (controller.kind = "PID" /\ ncalls > 0) =>
        /\ ncalls = 1 => call.aw = 0
        /\ (ncalls >= 2 /\ call.prev_ret = call.prev_command) => call.aw = 0

\* C8's case: the previous call moved the command and returned it unchanged, and
\* this call has T # 0 and Kaw # 0
C8_Witness ==
    /\ controller.kind = "PID" /\ ncalls >= 2
    /\ call.prev_ret = call.prev_command
    /\ call.prev_command # call.before.integral
    /\ forward
    /\ call.T # 0 /\ controller.Kaw # 0
    /\ call.aw = 0

\* C9: the filtered derivative divides by T + T_C, or by T_C when T + T_C = 0, and
\* no update call divides by zero.
C9_NoDivisionByZero ==
    ncalls > 0 =>
        /\ call.denom = (IF call.T + controller.T_C # 0 THEN call.T + controller.T_C
                         ELSE controller.T_C)
        /\ call.denom # 0
        /\ ~call.raised

(***************************************************************************)
(* Properties of the run and of reactor.py (specification RunSpec)         *)
(***************************************************************************)

\* the step main is expected to log at position k (from 1): iteration j does
\* reactor_dae, euler, update; the step after the last iteration is reactor_dae
ExpectedStep(k) ==
    LET j == (k - 1) \div 3
        m == (k - 1) % 3
    IN  IF m = 0 THEN [op |-> "reactor_dae", t |-> j, x |-> j, u |-> j, r |-> -1, w |-> j]
        ELSE IF m = 1 THEN [op |-> "euler", t |-> -1, x |-> j, u |-> -1, r |-> -1, w |-> j + 1]
        ELSE [op |-> "update", t |-> j, x |-> j + 1, u |-> -1, r |-> j + 1, w |-> j + 1]

Count(op) == Cardinality({ k \in 1..Len(log) : log[k].op = op })

C5_State ==
    pc \notin { "main", "raised" } =>
        /\ \A k \in 1..Len(log) : log[k] = ExpectedStep(k)
        /\ Len(log) = (CASE pc = "loop_dae" -> 3 * i
                         [] pc = "loop_euler" -> 3 * i + 1
                         [] pc = "loop_update" -> 3 * i + 2
                         [] pc = "final" -> 3 * (nt - 1)
                         [] OTHER -> 3 * (nt - 1) + 1)
        /\ ncalls = Count("update")
        /\ pc \in { "report", "done" } =>
               (Count("update") = nt - 1 /\ Count("reactor_dae") = nt)
        /\ \A j \in 0..(Count("reactor_dae") - 1) :
               rho_history[j + 1] = reactor_dae(reactor_sim, j * dt, state_history[j + 1],
                                                control_history[j + 1], zeros(12)).rho
        /\ ncalls > 0 =>
               /\ call.measurement = state_history[ncalls + 1][1]
               /\ call.setpoint = ref[ncalls + 1]
               /\ control_history[ncalls + 1] = call.ret

C5_Step ==
    pc = "final" =>
        /\ state_history' = state_history
        /\ control_history' = control_history
        /\ controller' = controller
        /\ ncalls' = ncalls

\* C5: iteration i computes reactivity[i] and state[i+1] from (state[i], command[i]),
\* then command[i+1] by one update fed state[i+1][0] and reference[i+1]; the step
\* after the loop computes one more reactivity from (state[N], command[N]) and
\* changes neither a state entry nor the controller; N updates, N+1 evaluations.
C5_OneStepDelay == []C5_State /\ [][C5_Step]_vars

\* C5's case: a finished run of two or more iterations in which the power moved and
\* the controller moved the command
C5_Witness ==
    /\ pc = "done" /\ nt >= 3
    /\ ncalls = nt - 1
    /\ state_history[3][1] # state_history[2][1]
    /\ control_history[3] # control_history[2]

\* C6: with num_drums outside {1, 2, 4, 8}, reactor_dae raises for every (t, x, u) and
\* returns nothing, a run ends raised with no history allocated, no step made and
\* nothing handed to plot_results, and get_drum_params returns its four values.
C6_InvalidDrumsAbort ==
    /\ (probe.op = "reactor_dae" /\ probe.num_drums \notin Supported) =>
           (probe.raised /\ probe.result = << >>)
    /\ (num_drums \notin Supported /\ pc # "main") =>
           /\ pc = "raised" /\ ~plotted
           /\ state_history = << >> /\ control_history = << >> /\ rho_history = << >>
           /\ log = << >> /\ ncalls = 0
    /\ (probe.op = "get_drum_params" /\ probe.num_drums \notin Supported) =>
           (~probe.raised /\ Len(probe.result) = 4)

\* C6's case: a run with an unsupported drum count has ended raised, and reactor_dae
\* called directly with that drum count has raised
C6_Witness ==
    /\ pc = "raised" /\ num_drums \notin Supported
    /\ probe.op = "reactor_dae" /\ probe.num_drums = num_drums /\ probe.raised

\* C7: get_drum_params returns the tabulated (Rho_d0, Reactivity_per_degree, u0, W)
\* for 8, 4, 2 and 1 drums, and for any other input the 8-drum Rho_d0,
\* Reactivity_per_degree and u0 with W = 0.04 (the 8-drum W is 0.06).
C7_DrumTable ==
    probe.op = "get_drum_params" =>
        LET n == probe.num_drums
            r == probe.result
        IN  /\ ~probe.raised
            /\ n = 8 => r = << -33085599, 2611, 77560, 60 >>
            /\ n = 4 => r = << -19105303, 1611, 108500, 100 >>
            /\ n = 2 => r = << -25685599, 733, 165500, 200 >>
            /\ n = 1 => r = << -17785599, 277, 170000, 490 >>
            /\ n \notin Supported => r = << -33085599, 2611, 77560, 40 >>

\* C7's case: the lookup of an unsupported drum count answered with W = 0.04
C7_Witness ==
    /\ probe.op = "get_drum_params" /\ probe.num_drums \notin Supported
    /\ probe.result[4] = 40

\* C10: every state vector of a run has length 12, and the initial one holds Xe0 at
\* the index reactor_dae unpacks as X and I0 at the index it unpacks as I.
C10_StateLayout ==
    pc \notin { "main", "raised" } =>
        /\ \A k \in 1..Len(state_history) : Len(state_history[k]) = 12
        /\ Unpack(state_history[1]).X = Xe0
        /\ Unpack(state_history[1]).I = I0

(***************************************************************************)
(* Zero elapsed time (specifications Spec and RunSpec)                     *)
(***************************************************************************)

\* an update call with t = t_prev returns the command the instance returned before
\* (u0 before any call) and stores the call's error and filtered derivative
ZeroElapsedCall ==
    (ncalls > 0 /\ call.T = 0) =>
        /\ ~call.raised
        /\ call.ret = call.before.command_sat_prev
        /\ (ncalls >= 2 => call.ret = call.prev_ret)
        /\ controller.err_prev = call.err
        /\ controller.deriv_prev =
               Div(call.err - call.before.err_prev
                     + Mul(call.before.T_C, call.before.deriv_prev), call.before.T_C)

\* main's first update is made at time[0] = 0 with t_prev = 0 and leaves
\* command[1] = command[0] = u0; every later update has elapsed time dt
DriverFirstCall ==
    (pc # "idle" /\ ncalls > 0) =>
        /\ ~call.raised
        /\ ncalls = 1 => (call.t = 0 /\ call.T = 0)
        /\ ncalls >= 2 => (call.T = dt /\ dt > 0)
        /\ control_history[2] = control_history[1]
        /\ control_history[1] = get_drum_params(num_drums)[3]

\* C11: an update call with zero elapsed time returns exactly the previously
\* returned command for either controller, whatever the measurement, setpoint,
\* gains and limits, and still overwrites err_prev and deriv_prev; main's first
\* update has zero elapsed time, so command[1] = command[0] = u0 in every run, and
\* every later update of the run has elapsed time dt > 0.
C11_ZeroElapsedKeepsCommand == ZeroElapsedCall /\ DriverFirstCall

====
